---- MODULE Spec2Model ----
(***************************************************************************)
(* DBackup, src/server/backup: the backup strategy base class (base.py),   *)
(* the strategy factory (factory.py) and the MySQL strategy (mysql.py).    *)
(*                                                                         *)
(* Callers resolve a strategy for an engine identifier and run its         *)
(* backup(db_config): ensure_backup_dir, target database and file name,    *)
(* the mariadb-dump command line and environment, subprocess.run, and the  *)
(* conversion of the subprocess outcome into (success, filepath, message). *)
(*                                                                         *)
(* A Python str is a sequence of one-character strings, so that split,     *)
(* strip, formatting and concatenation are computed, not assumed.          *)
(***************************************************************************)
EXTENDS Integers, Sequences, FiniteSets, TLC

\* ------------------------------------------------------------- bounds

\* Number of seconds the wall clock may advance during a run.
MaxTicks == 2

\* Longest db_name (in characters) a caller passes in the one-caller runs.
MaxLen == 3

\* ---------------------------------------------------- string literals

\* "mariadb-dump"  (the program name, cmd[0] (mysql.py:27))
LitDumpTool ==
    <<"m", "a", "r", "i", "a", "d", "b", "-", "d", "u", "m", "p">>

\* "-h"  (mysql.py:28)
LitHostFlag ==
    <<"-", "h">>

\* "-P"  (mysql.py:29)
LitPortFlag ==
    <<"-", "P">>

\* "-u"  (mysql.py:30)
LitUserFlag ==
    <<"-", "u">>

\* "--result-file="  (mysql.py:31)
LitResultFileFlag ==
    <<"-", "-", "r", "e", "s", "u", "l", "t", "-", "f", "i", "l", "e", "=">>

\* "--single-transaction"  (mysql.py:32)
LitSingleTransaction ==
    <<"-", "-", "s", "i", "n", "g", "l", "e", "-", "t", "r", "a", "n", "s", 
      "a", "c", "t", "i", "o", "n">>

\* "MYSQL_PWD"  (mysql.py:37)
LitPwdVar ==
    <<"M", "Y", "S", "Q", "L", "_", "P", "W", "D">>

\* "backup_mysql_"  (mysql.py:22)
LitFilePrefix ==
    <<"b", "a", "c", "k", "u", "p", "_", "m", "y", "s", "q", "l", "_">>

\* ".sql"  (mysql.py:22)
LitFileSuffix ==
    <<".", "s", "q", "l">>

\* "Backup erfolgreich erstellt."  (mysql.py:47)
LitSuccessMsg ==
    <<"B", "a", "c", "k", "u", "p", " ", "e", "r", "f", "o", "l", "g", "r", 
      "e", "i", "c", "h", " ", "e", "r", "s", "t", "e", "l", "l", "t", ".">>

\* "Fehler beim Erstellen des Backups: "  (mysql.py:49)
LitErrorPrefix ==
    <<"F", "e", "h", "l", "e", "r", " ", "b", "e", "i", "m", " ", "E", "r", 
      "s", "t", "e", "l", "l", "e", "n", " ", "d", "e", "s", " ", "B", "a", 
      "c", "k", "u", "p", "s", ":", " ">>

\* "PostgreSQL Backup noch nicht implementiert."  (factory.py:11)
LitPostgresMsg ==
    <<"P", "o", "s", "t", "g", "r", "e", "S", "Q", "L", " ", "B", "a", "c", 
      "k", "u", "p", " ", "n", "o", "c", "h", " ", "n", "i", "c", "h", "t", 
      " ", "i", "m", "p", "l", "e", "m", "e", "n", "t", "i", "e", "r", "t", 
      ".">>

\* "MongoDB Backup noch nicht implementiert."  (factory.py:13)
LitMongoMsg ==
    <<"M", "o", "n", "g", "o", "D", "B", " ", "B", "a", "c", "k", "u", "p", 
      " ", "n", "o", "c", "h", " ", "n", "i", "c", "h", "t", " ", "i", "m", 
      "p", "l", "e", "m", "e", "n", "t", "i", "e", "r", "t", ".">>

\* "Unbekannter Datenbank-Typ: "  (factory.py:15)
LitUnknownPrefix ==
    <<"U", "n", "b", "e", "k", "a", "n", "n", "t", "e", "r", " ", "D", "a", 
      "t", "e", "n", "b", "a", "n", "k", "-", "T", "y", "p", ":", " ">>

\* ---------------------------------------------------- str operations

\* Python's None for an optional value, and a present value.
None == <<>>

Some(x) == <<x>>

\* str.isspace for one character (the ASCII whitespace str.strip removes).
IsSpace(ch) == ch \in {" ", "\t", "\n", "\r", "\f"}

\* sub in s, for two str values.
Contains(s, sub) ==
    \E i \in 1..(Len(s) - Len(sub) + 1) : SubSeq(s, i, i + Len(sub) - 1) = sub

\* s.split(',')[0]: the text before the first comma (the whole s without one).
SplitFirst(s) ==
    IF \E i \in 1..Len(s) : s[i] = ","
    THEN LET i == CHOOSE j \in 1..Len(s) :
                      s[j] = "," /\ \A k \in 1..(j - 1) : s[k] # ","
         IN  SubSeq(s, 1, i - 1)
    ELSE s

\* s.strip(): s without its leading and trailing whitespace.
Strip(s) ==
    LET keep == {i \in 1..Len(s) : ~IsSpace(s[i])}
    IN  IF keep = {} THEN <<>>
        ELSE LET lo == CHOOSE i \in keep : \A j \in keep : i <= j
                 hi == CHOOSE i \in keep : \A j \in keep : j <= i
             IN  SubSeq(s, lo, hi)

\* One decimal digit as a character.
Digit(d) == SubSeq(<<"0", "1", "2", "3", "4", "5", "6", "7", "8", "9">>, d + 1, d + 1)

\* str(n) / f"{n}" for a non-negative int.
RECURSIVE IntStr(_)
IntStr(n) == IF n < 10 THEN Digit(n) ELSE IntStr(n \div 10) \o Digit(n % 10)

\* strftime's zero-padded field of the given width (%Y %m %d %H %M %S).
RECURSIVE Padded(_, _)
Padded(n, width) ==
    IF width = 0 THEN <<>> ELSE Padded(n \div 10, width - 1) \o Digit(n % 10)

\* ----------------------------------------------------- local wall clock

\* The local date and time at which the model's run begins.
BootTime == [year |-> 2025, month |-> 12, day |-> 31, second |-> 86398]

IsLeap(y) == (y % 4 = 0 /\ y % 100 # 0) \/ y % 400 = 0

DaysInMonth(y, m) ==
    IF m = 2 THEN (IF IsLeap(y) THEN 29 ELSE 28)
    ELSE IF m \in {4, 6, 9, 11} THEN 30 ELSE 31

\* The calendar date k days after date d.
RECURSIVE AddDays(_, _)
AddDays(d, k) ==
    IF k = 0 THEN d
    ELSE IF d.day < DaysInMonth(d.year, d.month)
         THEN AddDays([d EXCEPT !.day = d.day + 1], k - 1)
    ELSE IF d.month < 12
         THEN AddDays([d EXCEPT !.month = d.month + 1, !.day = 1], k - 1)
    ELSE AddDays([d EXCEPT !.year = d.year + 1, !.month = 1, !.day = 1], k - 1)

\* datetime.datetime.now() after `ticks` seconds: the broken-down local time.
Now(ticks) ==
    LET total == BootTime.second + ticks
        date  == AddDays(BootTime, total \div 86400)
        sod   == total % 86400
    IN  [year |-> date.year, month |-> date.month, day |-> date.day,
         hour |-> sod \div 3600, minute |-> (sod % 3600) \div 60,
         second |-> sod % 60]

\* dt.strftime("%Y%m%d_%H%M%S")
Strftime(dt) ==
    Padded(dt.year, 4) \o Padded(dt.month, 2) \o Padded(dt.day, 2) \o <<"_">>
      \o Padded(dt.hour, 2) \o Padded(dt.minute, 2) \o Padded(dt.second, 2)

\* BackupStrategy.get_timestamp
get_timestamp(ticks) == Strftime(Now(ticks))

\* ------------------------------------------------------- file system

\* os.path.join of path components (POSIX): the components separated by "/".
RECURSIVE JoinPath(_)
JoinPath(parts) ==
    IF Len(parts) = 0 THEN <<>>
    ELSE IF Len(parts) = 1 THEN parts[1]
    ELSE parts[1] \o <<"/">> \o JoinPath(Tail(parts))

\* os.path.abspath's normalisation of an absolute path given as components:
\* a ".." removes the component before it.
RECURSIVE NormPath(_, _)
NormPath(done, rest) ==
    IF Len(rest) = 0 THEN done
    ELSE IF Head(rest) = <<".", ".">>
         THEN NormPath(IF Len(done) = 0 THEN done
                       ELSE SubSeq(done, 1, Len(done) - 1), Tail(rest))
    ELSE NormPath(Append(done, Head(rest)), Tail(rest))

\* os.path.dirname(__file__) of base.py, as components below the root: the
\* program is installed in /app.
ModuleDir == << <<"a", "p", "p">>, <<"s", "r", "c">>,
                <<"s", "e", "r", "v", "e", "r">>,
                <<"b", "a", "c", "k", "u", "p">> >>

\* BackupStrategy.BACKUP_DIR
BACKUP_DIR ==
    <<"/">> \o JoinPath(NormPath(<<>>,
        ModuleDir \o << <<".", ".">>, <<".", ".">>, <<".", ".">>,
                        <<"b", "a", "c", "k", "u", "p", "s">> >>))

\* --------------------------------------------------------- exceptions

\* The base class of each exception class that occurs (Python's hierarchy).
BaseOf ==
    [cls \in {"BaseException", "Exception", "OSError", "FileNotFoundError",
              "PermissionError", "FileExistsError", "SubprocessError",
              "CalledProcessError", "RuntimeError", "NotImplementedError",
              "ValueError"} |->
        CASE cls = "BaseException"       -> "BaseException"
          [] cls = "Exception"           -> "BaseException"
          [] cls = "OSError"             -> "Exception"
          [] cls = "FileNotFoundError"   -> "OSError"
          [] cls = "PermissionError"     -> "OSError"
          [] cls = "FileExistsError"     -> "OSError"
          [] cls = "SubprocessError"     -> "Exception"
          [] cls = "CalledProcessError"  -> "SubprocessError"
          [] cls = "RuntimeError"        -> "Exception"
          [] cls = "NotImplementedError" -> "RuntimeError"
          [] cls = "ValueError"          -> "Exception"]

\* issubclass(cls, base)
RECURSIVE IsSubclass(_, _)
IsSubclass(cls, base) ==
    \/ cls = base
    \/ cls # "BaseException" /\ IsSubclass(BaseOf[cls], base)

\* An exception object: its class, and the attributes the handlers read.
Exc(cls, errno, text, filename, stderr) ==
    [cls |-> cls, errno |-> errno, text |-> text, filename |-> filename,
     stderr |-> stderr]

\* An exception constructed with one message argument.
MsgExc(cls, text) == Exc(cls, 0, text, <<>>, <<>>)

\* OSError(errno, strerror, filename) of the given subclass.
OsExc(cls, errno, strerror, filename) == Exc(cls, errno, strerror, filename, <<>>)

\* str(list of str): the repr of each element in brackets.
RECURSIVE ReprItems(_)
ReprItems(l) ==
    IF Len(l) = 0 THEN <<>>
    ELSE <<"'">> \o Head(l) \o <<"'">>
           \o (IF Len(l) = 1 THEN <<>> ELSE <<",", " ">>) \o ReprItems(Tail(l))

\* subprocess.CalledProcessError(returncode, cmd, output, stderr)
CalledProcessError(returncode, cmd, stderr) ==
    Exc("CalledProcessError", returncode,
        <<"C", "o", "m", "m", "a", "n", "d", " ", "'", "[">> \o ReprItems(cmd)
          \o <<"]", "'", " ", "r", "e", "t", "u", "r", "n", "e", "d", " ",
               "n", "o", "n", "-", "z", "e", "r", "o", " ", "e", "x", "i", "t",
               " ", "s", "t", "a", "t", "u", "s", " ">>
          \o IntStr(returncode) \o <<".">>,
        <<>>, stderr)

\* str(e)
ExcStr(e) ==
    IF IsSubclass(e.cls, "OSError")
    THEN <<"[", "E", "r", "r", "n", "o", " ">> \o IntStr(e.errno) \o <<"]", " ">>
           \o e.text \o <<":", " ", "'">> \o e.filename \o <<"'">>
    ELSE e.text

\* ------------------------------------------------------------ factory

MYSQL == <<"m", "y", "s", "q", "l">>

POSTGRESQL == <<"p", "o", "s", "t", "g", "r", "e", "s", "q", "l">>

MONGODB == <<"m", "o", "n", "g", "o", "d", "b">>

\* What a call returns or raises.
Returns(v) == [ret |-> Some(v), exc |-> None]

Raises(e) == [ret |-> None, exc |-> Some(e)]

\* get_backup_strategy with its last branch returning the default strategy.
get_backup_strategy_default(db_type) ==
    IF db_type = POSTGRESQL
    THEN Raises(MsgExc("NotImplementedError", LitPostgresMsg))
    ELSE IF db_type = MONGODB
         THEN Raises(MsgExc("NotImplementedError", LitMongoMsg))
    ELSE Returns("MySQLBackup")

\* BackupFactory.get_backup_strategy
get_backup_strategy(db_type) ==
    IF db_type = MYSQL THEN Returns("MySQLBackup")
    ELSE IF db_type = POSTGRESQL
         THEN Raises(MsgExc("NotImplementedError", LitPostgresMsg))
    ELSE IF db_type = MONGODB
         THEN Raises(MsgExc("NotImplementedError", LitMongoMsg))
    ELSE Raises(MsgExc("ValueError", LitUnknownPrefix \o db_type))

\* ----------------------------------------------------- MySQL strategy

\* target_db without the strip().
TargetDbUnstripped(db_name) ==
    IF Contains(db_name, <<",">>) THEN SplitFirst(db_name) ELSE db_name

\* target_db = db_name.split(',')[0].strip() if ',' in db_name else db_name
TargetDb(db_name) ==
    IF Contains(db_name, <<",">>) THEN Strip(SplitFirst(db_name)) ELSE db_name

\* The file name without the timestamp.
FilenameUndated(target_db, timestamp) == LitFilePrefix \o target_db \o LitFileSuffix

\* filename = f"backup_mysql_{target_db}_{timestamp}.sql"
Filename(target_db, timestamp) ==
    LitFilePrefix \o target_db \o <<"_">> \o timestamp \o LitFileSuffix

\* os.path.join(a, b) for two POSIX paths.
PathJoin(a, b) ==
    IF Len(b) > 0 /\ b[1] = "/" THEN b
    ELSE IF Len(a) = 0 \/ a[Len(a)] = "/" THEN a \o b
    ELSE a \o <<"/">> \o b

\* filepath without the backup directory.
FilepathBare(target_db, timestamp) == Filename(target_db, timestamp)

\* filepath = os.path.join(self.BACKUP_DIR, filename)
Filepath(target_db, timestamp) == PathJoin(BACKUP_DIR, Filename(target_db, timestamp))

\* The command with the password given as an option.
BuildCmdWithPassword(db_config, filepath, target_db) ==
    << LitDumpTool,
       LitHostFlag \o db_config.db_host,
       LitPortFlag \o IntStr(db_config.db_port),
       LitUserFlag \o db_config.db_user,
       <<"-", "p">> \o db_config.db_password,
       LitResultFileFlag \o filepath,
       LitSingleTransaction,
       target_db >>

\* cmd = ["mariadb-dump", f"-h{host}", f"-P{port}", f"-u{user}",
\*        f"--result-file={filepath}", "--single-transaction", target_db]
BuildCmd(db_config, filepath, target_db) ==
    << LitDumpTool,
       LitHostFlag \o db_config.db_host,
       LitPortFlag \o IntStr(db_config.db_port),
       LitUserFlag \o db_config.db_user,
       LitResultFileFlag \o filepath,
       LitSingleTransaction,
       target_db >>

\* os.environ of the server process.
OsEnviron == [name \in { <<"P", "A", "T", "H">> } |-> <<"/", "b", "i", "n">>]

\* env = os.environ.copy(); env['MYSQL_PWD'] = password
BuildEnv(db_config) ==
    [name \in DOMAIN OsEnviron \cup {LitPwdVar} |->
        IF name = LitPwdVar THEN db_config.db_password ELSE OsEnviron[name]]

\* What subprocess.run(cmd, env=env, capture_output=True, text=True,
\* check=True) does with what became of the tool (it could not be started, or
\* it ran and exited): it returns the completed process or raises.
SubprocessRun(cmd, outcome) ==
    CASE outcome.kind = "spawn_failed" -> Raises(outcome.error)
      [] outcome.kind = "exited" ->
             IF outcome.returncode # 0
             THEN Raises(CalledProcessError(outcome.returncode, cmd, outcome.stderr))
             ELSE Returns([returncode |-> 0, stderr |-> outcome.stderr])

\* The try statement with a first handler that leaves e.stderr out.
RunResultNoStderr(cmd, filepath, outcome) ==
    LET r == SubprocessRun(cmd, outcome)
    IN  IF r.exc = None
        THEN Returns(<<TRUE, Some(filepath), LitSuccessMsg>>)
        ELSE LET e == r.exc[1]
             IN  IF IsSubclass(e.cls, "CalledProcessError")
                 THEN Returns(<<FALSE, None, LitErrorPrefix>>)
                 ELSE IF IsSubclass(e.cls, "Exception")
                 THEN Returns(<<FALSE, None, ExcStr(e)>>)
                 ELSE Raises(e)

\* The try statement without its second handler.
RunResultOneHandler(cmd, filepath, outcome) ==
    LET r == SubprocessRun(cmd, outcome)
    IN  IF r.exc = None
        THEN Returns(<<TRUE, Some(filepath), LitSuccessMsg>>)
        ELSE LET e == r.exc[1]
             IN  IF IsSubclass(e.cls, "CalledProcessError")
                 THEN Returns(<<FALSE, None, LitErrorPrefix \o e.stderr>>)
                 ELSE Raises(e)

\* The try statement of MySQLBackup.backup around subprocess.run: the value
\* backup returns, or the exception that leaves it.
RunResult(cmd, filepath, outcome) ==
    LET r == SubprocessRun(cmd, outcome)
    IN  IF r.exc = None
        THEN Returns(<<TRUE, Some(filepath), LitSuccessMsg>>)
        ELSE LET e == r.exc[1]
             IN  IF IsSubclass(e.cls, "CalledProcessError")
                 THEN Returns(<<FALSE, None, LitErrorPrefix \o e.stderr>>)
                 ELSE IF IsSubclass(e.cls, "Exception")
                 THEN Returns(<<FALSE, None, ExcStr(e)>>)
                 ELSE Raises(e)

\* ------------------------------------------------------------- inputs

\* All str values of at most n characters over an alphabet.
StringsUpTo(alphabet, n) == UNION {[1..k -> alphabet] : k \in 0..n}

\* db_config objects: the attributes backup reads (mysql.py:10-14).
ConfigsOf(hosts, ports, users, passwords, names) ==
    [db_host : hosts, db_port : ports, db_user : users,
     db_password : passwords, db_name : names]

NoSuchFile ==
    OsExc("FileNotFoundError", 2,
          <<"N", "o", " ", "s", "u", "c", "h", " ", "f", "i", "l", "e">>,
          LitDumpTool)

NotPermitted ==
    OsExc("PermissionError", 13,
          <<"P", "e", "r", "m", "i", "s", "s", "i", "o", "n", " ",
            "d", "e", "n", "i", "e", "d">>,
          LitDumpTool)

NullByte ==
    MsgExc("ValueError",
           <<"e", "m", "b", "e", "d", "d", "e", "d", " ", "n", "u", "l", "l",
             " ", "b", "y", "t", "e">>)

AccessDenied == <<"A", "c", "c", "e", "s", "s", " ", "d", "e", "n", "i", "e", "d">>

APPDB == <<"a", "p", "p", "d", "b">>

APPDB_LOGSDB == APPDB \o <<",", "l", "o", "g", "s", "d", "b">>

\* The tool could not be started: subprocess.run raises e.
SpawnFailed(e) == [kind |-> "spawn_failed", error |-> e]

\* The tool ran and exited.
Exited(returncode, stderr) ==
    [kind |-> "exited", returncode |-> returncode, stderr |-> stderr]

\* The callers that may be inside the package at once.
Callers == {"c1", "c2"}

\* What the callers and the operating system may present when the callers
\* run at once: few values, every interleaving.
ManyInputs ==
    [engines  |-> {MYSQL, MONGODB},
     configs  |-> ConfigsOf({<<"h">>}, {3306}, {<<"u">>}, {<<"s">>},
                            {<<"a">>, <<"a", ",", "b">>, <<"b">>}),
     outcomes |-> {SpawnFailed(NoSuchFile), Exited(0, <<>>), Exited(1, AccessDenied)}]

\* What one caller alone may present: every db_name up to MaxLen characters
\* over a letter, the comma and the blank, passwords that do and do not
\* coincide with another value, every kind of outcome.
OneInputs ==
    [engines  |-> {MYSQL, POSTGRESQL, MONGODB, <<>>, <<"M", "y", "S", "Q", "L">>,
                   <<"s", "q", "l", "i", "t", "e">>},
     configs  |-> ConfigsOf({<<"h">>}, {3306, 33060}, {<<"u">>},
                            {<<"a">>, <<"s">>},
                            StringsUpTo({"a", ",", " "}, MaxLen)
                              \cup {APPDB, APPDB_LOGSDB}),
     outcomes |-> {SpawnFailed(e) : e \in {NoSuchFile, NotPermitted, NullByte}}
                  \cup {Exited(rc, err) : rc \in {0, 1, 2},
                                          err \in {<<>>, AccessDenied}}]

\* -------------------------------------------------------------- state

VARIABLES
    dirExists,    \* os.path.exists(BACKUP_DIR)
    ticks,        \* seconds the wall clock has advanced
    pc,           \* where each caller is
    frame,        \* each caller's current request: arguments, locals, outcome
    procs,        \* what became of the tool each caller's backup started
    runs,         \* calls of subprocess.run made by each caller's current backup
    prev_ensure   \* what each caller's previous ensure_backup_dir returned

vars == <<dirExists, ticks, pc, frame, procs, runs, prev_ensure>>

\* A request that has not started.
NoFrame ==
    [db_type |-> None, strategy |-> None, db_config |-> None,
     existed |-> None, ensure_ret |-> None, made |-> FALSE,
     target_db |-> None, timestamp |-> None, filepath |-> None,
     cmd |-> None, env |-> None, result |-> None, exc |-> None]

Init ==
    /\ dirExists \in BOOLEAN
    /\ ticks = 0
    /\ pc = [c \in Callers |-> "idle"]
    /\ frame = [c \in Callers |-> NoFrame]
    /\ procs = [c \in Callers |-> None]
    /\ runs = [c \in Callers |-> 0]
    /\ prev_ensure = [c \in Callers |-> None]

\* The wall clock advances by one second.
Tick ==
    /\ ticks < MaxTicks
    /\ ticks' = ticks + 1
    /\ UNCHANGED <<dirExists, pc, frame, procs, runs, prev_ensure>>

\* A failed result sends backup back to run the tool again.
EndedOrRetry(f) ==
    IF f.exc # None THEN "raised"
    ELSE IF f.result # None /\ ~f.result[1][1] THEN "prepare"
    ELSE "returned"

\* Where a call that has ended leaves the caller: with the exception that
\* left it, or with the value it returned.
Ended(f) == IF f.exc # None THEN "raised" ELSE "returned"

\* The frame after get_backup_strategy(db_type).
Resolved(f, db_type) ==
    LET r == get_backup_strategy(db_type)
    IN  [f EXCEPT !.db_type = Some(db_type), !.strategy = r.ret, !.exc = r.exc]

\* A caller asks the factory for the strategy of an engine identifier.
Request(c, in) ==
    /\ pc[c] = "idle"
    /\ \E db_type \in in.engines :
          /\ frame' = [frame EXCEPT ![c] = Resolved(@, db_type)]
          /\ pc' = [pc EXCEPT ![c] =
                       IF frame'[c].strategy # None THEN "resolved"
                       ELSE Ended(frame'[c])]
    /\ UNCHANGED <<dirExists, ticks, procs, runs, prev_ensure>>

\* ensure_backup_dir with its test inverted.
TestedInverted(f, exists) ==
    [f EXCEPT !.existed = Some(exists),
              !.ensure_ret = IF ~exists THEN Some(BACKUP_DIR) ELSE None]

\* ensure_backup_dir from its test on: with the directory there it returns
\* BACKUP_DIR, without it goes on to os.makedirs.
Tested(f, exists) ==
    [f EXCEPT !.existed = Some(exists),
              !.ensure_ret = IF exists THEN Some(BACKUP_DIR) ELSE None]

\* The caller calls strategy.backup(db_config); backup calls
\* ensure_backup_dir, which tests os.path.exists(BACKUP_DIR).
BackupEnter(c, in) ==
    /\ pc[c] = "resolved"
    /\ \E db_config \in in.configs :
          /\ frame' = [frame EXCEPT ![c] =
                          Tested([@ EXCEPT !.db_config = Some(db_config)], dirExists)]
          /\ pc' = [pc EXCEPT ![c] =
                       IF frame'[c].ensure_ret # None THEN "prepare" ELSE "makedirs"]
    /\ UNCHANGED <<dirExists, ticks, procs, runs, prev_ensure>>

FileExists ==
    OsExc("FileExistsError", 17,
          <<"F", "i", "l", "e", " ", "e", "x", "i", "s", "t", "s">>, BACKUP_DIR)

MakedirsDenied ==
    OsExc("PermissionError", 13,
          <<"P", "e", "r", "m", "i", "s", "s", "i", "o", "n", " ",
            "d", "e", "n", "i", "e", "d">>, BACKUP_DIR)

\* The exception of os.makedirs turned into a failed result.
MakedirsRaisedCaught(f, e) == [f EXCEPT !.result = Some(<<FALSE, None, ExcStr(e)>>)]

\* os.makedirs(BACKUP_DIR) has raised e: neither ensure_backup_dir nor backup
\* catches it (the call is before backup's try statement).
MakedirsRaised(f, e) == [f EXCEPT !.exc = Some(e)]

\* os.makedirs(BACKUP_DIR) has made the directory: ensure_backup_dir returns.
MakedirsDone(f) == [f EXCEPT !.made = TRUE, !.ensure_ret = Some(BACKUP_DIR)]

\* ensure_backup_dir after a test that found no directory: os.makedirs, which
\* raises FileExistsError when the directory is there by now, and otherwise
\* makes it or is refused.
Makedirs(c) ==
    /\ pc[c] = "makedirs"
    /\ \/ /\ dirExists
          /\ frame' = [frame EXCEPT ![c] = MakedirsRaised(@, FileExists)]
          /\ UNCHANGED dirExists
       \/ /\ ~dirExists
          /\ dirExists' = TRUE
          /\ frame' = [frame EXCEPT ![c] = MakedirsDone(@)]
       \/ /\ ~dirExists
          /\ frame' = [frame EXCEPT ![c] = MakedirsRaised(@, MakedirsDenied)]
          /\ UNCHANGED dirExists
    /\ pc' = [pc EXCEPT ![c] =
                 IF frame'[c].ensure_ret # None THEN "prepare" ELSE Ended(frame'[c])]
    /\ UNCHANGED <<ticks, procs, runs, prev_ensure>>

\* backup from its attribute reads to the command and the environment.
Prepared(f, now) ==
    LET db_config == f.db_config[1]
        target_db == TargetDb(db_config.db_name)
        timestamp == get_timestamp(now)
        filepath  == Filepath(target_db, timestamp)
    IN  [f EXCEPT !.target_db = Some(target_db),
                  !.timestamp = Some(timestamp),
                  !.filepath = Some(filepath),
                  !.cmd = Some(BuildCmd(db_config, filepath, target_db)),
                  !.env = Some(BuildEnv(db_config))]

\* backup once subprocess.run has met an outcome: the value backup returns,
\* or the exception that leaves it.
Finished(f, outcome) ==
    LET r == RunResult(f.cmd[1], f.filepath[1], outcome)
    IN  [f EXCEPT !.result = r.ret, !.exc = r.exc]

\* The tool as subprocess.run started it.
Started(f) ==
    [args |-> f.cmd[1], env |-> f.env[1], state |-> "running",
     returncode |-> None, stderr |-> None, error |-> None]

\* backup builds its command and calls subprocess.run, which starts the
\* tool and waits for it, or cannot start it.
Launch(c, in) ==
    /\ pc[c] = "prepare"
    /\ runs' = [runs EXCEPT ![c] = @ + 1]
    /\ LET f == Prepared(frame[c], ticks)
       IN  \/ /\ procs' = [procs EXCEPT ![c] = Some(Started(f))]
              /\ frame' = [frame EXCEPT ![c] = f]
              /\ pc' = [pc EXCEPT ![c] = "waiting"]
           \/ \E outcome \in {o \in in.outcomes : o.kind = "spawn_failed"} :
                 /\ procs' = [procs EXCEPT ![c] =
                       Some([Started(f) EXCEPT !.state = "spawn_failed",
                                               !.error = Some(outcome.error)])]
                 /\ frame' = [frame EXCEPT ![c] = Finished(f, outcome)]
                 /\ pc' = [pc EXCEPT ![c] = Ended(frame'[c])]
    /\ UNCHANGED <<dirExists, ticks, prev_ensure>>

\* The tool exits; subprocess.run, which was blocked on it, returns or raises.
SubprocessExit(c, in) ==
    /\ pc[c] = "waiting"
    /\ \E outcome \in {o \in in.outcomes : o.kind = "exited"} :
          /\ procs' = [procs EXCEPT ![c] =
                Some([@[1] EXCEPT !.state = "exited",
                                  !.returncode = Some(outcome.returncode),
                                  !.stderr = Some(outcome.stderr)])]
          /\ frame' = [frame EXCEPT ![c] = Finished(@, outcome)]
          /\ pc' = [pc EXCEPT ![c] = Ended(frame'[c])]
    /\ UNCHANGED <<dirExists, ticks, runs, prev_ensure>>

\* The caller has its result or its exception; the strategy is discarded.
Return(c) ==
    /\ pc[c] \in {"returned", "raised"}
    /\ pc' = [pc EXCEPT ![c] = "idle"]
    /\ prev_ensure' = [prev_ensure EXCEPT ![c] =
          IF frame[c].existed = None THEN @ ELSE frame[c].ensure_ret]
    /\ frame' = [frame EXCEPT ![c] = NoFrame]
    /\ procs' = [procs EXCEPT ![c] = None]
    /\ runs' = [runs EXCEPT ![c] = 0]
    /\ UNCHANGED <<dirExists, ticks>>

CallerStep(c, in) ==
    \/ Request(c, in)
    \/ BackupEnter(c, in)
    \/ Makedirs(c)
    \/ Launch(c, in)
    \/ SubprocessExit(c, in)
    \/ Return(c)

\* The callers at once.
Next == Tick \/ \E c \in Callers : CallerStep(c, ManyInputs)

Spec == Init /\ [][Next]_vars

\* One caller, one request after the other.
NextOne == Tick \/ CallerStep("c1", OneInputs)

SpecOne == Init /\ [][NextOne]_vars

\* ============================================================== claims

\* Caller c's backup(db_config) has been entered.
InBackup(c) == frame[c].db_config # None

\* The path after "--result-file=" in an argument list: the file the tool
\* is told to write.
ResultFileOf(args) ==
    LET n == Len(LitResultFileFlag)
        i == CHOOSE j \in 1..Len(args) :
                 Len(args[j]) >= n /\ SubSeq(args[j], 1, n) = LitResultFileFlag
    IN  SubSeq(args[i], n + 1, Len(args[i]))

\* --------------------------------------------------------------- C1
\* C1: get_backup_strategy returns a MySQL strategy for "mysql", raises
\* NotImplementedError for "postgresql" and "mongodb", and raises ValueError
\* (the unknown-engine error, no NotImplementedError) for every other
\* identifier; when it raises, the caller holds no strategy, backup is not
\* entered and no subprocess is run.
C1_FactoryOutcomes ==
    \A c \in Callers :
        frame[c].db_type # None =>
            LET f == frame[c]
                db_type == f.db_type[1]
                failed == /\ f.strategy = None
                          /\ pc[c] = "raised"
                          /\ f.exc # None
                          /\ ~InBackup(c)
                          /\ f.result = None
                          /\ runs[c] = 0
                          /\ procs[c] = None
            IN  /\ db_type = MYSQL =>
                      /\ f.strategy = Some("MySQLBackup")
                      /\ (~InBackup(c) => pc[c] = "resolved" /\ f.exc = None)
                /\ db_type \in {POSTGRESQL, MONGODB} =>
                      /\ failed
                      /\ f.exc[1].cls = "NotImplementedError"
                /\ db_type \notin {MYSQL, POSTGRESQL, MONGODB} =>
                      /\ failed
                      /\ f.exc[1].cls = "ValueError"
                      /\ ~IsSubclass(f.exc[1].cls, "NotImplementedError")
                      /\ ~IsSubclass("NotImplementedError", f.exc[1].cls)

\* An unknown identifier has been refused.
C1_Witness ==
    \E c \in Callers :
        /\ frame[c].db_type = Some(<<"s", "q", "l", "i", "t", "e">>)
        /\ pc[c] = "raised"
        /\ frame[c].exc[1].cls = "ValueError"

\* --------------------------------------------------------------- C2
\* C2: when the tool has exited with code 0, backup has returned
\* (True, filepath, message) with filepath equal to
\* BACKUP_DIR/backup_mysql_<target_db>_<timestamp>.sql, where target_db is
\* taken from db_config.db_name, timestamp is a value get_timestamp returned
\* during the run, and the same path follows --result-file= in the arguments
\* the tool was started with.
C2_SuccessPath ==
    \A c \in Callers :
        (procs[c] # None /\ procs[c][1].returncode = Some(0)) =>
            LET f == frame[c]
                target_db == f.target_db[1]
                name == f.db_config[1].db_name
            IN  /\ pc[c] = "returned"
                /\ f.exc = None
                /\ f.result # None
                /\ f.result[1][1] = TRUE
                /\ f.result[1][2] # None
                /\ f.result[1][2][1] =
                      BACKUP_DIR \o <<"/">> \o LitFilePrefix \o target_db \o <<"_">>
                        \o f.timestamp[1] \o LitFileSuffix
                /\ f.result[1][2][1] = ResultFileOf(procs[c][1].args)
                /\ f.timestamp[1] \in {get_timestamp(t) : t \in 0..ticks}
                /\ target_db = (IF \E i \in 1..Len(name) : name[i] = ","
                                THEN Strip(SplitFirst(name)) ELSE name)

\* A dump of "appdb" has succeeded.
C2_Witness ==
    \E c \in Callers :
        /\ procs[c] # None
        /\ procs[c][1].returncode = Some(0)
        /\ frame[c].result # None
        /\ frame[c].result[1][1] = TRUE
        /\ frame[c].target_db = Some(APPDB)

\* --------------------------------------------------------------- C3
\* C3: when the tool has exited with a non-zero code, backup has not raised:
\* it has returned (False, None, message) and the message contains the
\* tool's captured standard error.
C3_NonZeroExit ==
    \A c \in Callers :
        (procs[c] # None /\ procs[c][1].state = "exited"
                         /\ procs[c][1].returncode # Some(0)) =>
            /\ pc[c] = "returned"
            /\ frame[c].exc = None
            /\ frame[c].result # None
            /\ frame[c].result[1][1] = FALSE
            /\ frame[c].result[1][2] = None
            /\ Contains(frame[c].result[1][3], procs[c][1].stderr[1])

\* Exit code 1 with "Access denied" on standard error.
C3_Witness ==
    \E c \in Callers :
        /\ procs[c] # None
        /\ procs[c][1].returncode = Some(1)
        /\ procs[c][1].stderr = Some(AccessDenied)
        /\ frame[c].result # None
        /\ Contains(frame[c].result[1][3], AccessDenied)

\* --------------------------------------------------------------- C4
\* C4: when the tool could not be started, backup has not raised: it has
\* returned (False, None, str(e)) for the exception e that subprocess.run
\* raised.
C4_SpawnFailure ==
    \A c \in Callers :
        (procs[c] # None /\ procs[c][1].state = "spawn_failed") =>
            LET e == procs[c][1].error[1]
            IN  /\ pc[c] = "returned"
                /\ frame[c].exc = None
                /\ frame[c].result # None
                /\ frame[c].result[1][1] = FALSE
                /\ frame[c].result[1][2] = None
                /\ frame[c].result[1][3] = ExcStr(e)
                /\ Contains(frame[c].result[1][3], e.text)

\* The executable was not found.
C4_Witness ==
    \E c \in Callers :
        /\ procs[c] # None
        /\ procs[c][1].state = "spawn_failed"
        /\ procs[c][1].error[1].cls = "FileNotFoundError"
        /\ frame[c].result # None

\* --------------------------------------------------------------- C5
\* C5 as stated: the password value is never an element of the argument
\* list, whatever host, port, user, password and database name are.
C5_PasswordNeverAnArgument ==
    \A c \in Callers :
        frame[c].cmd # None =>
            \A i \in 1..Len(frame[c].cmd[1]) :
                frame[c].cmd[1][i] # frame[c].db_config[1].db_password

\* C5 as amended: the argument list does not depend on the password (it is
\* the list backup builds for the same host, port, user and database name
\* under every other password, so the value occurs in it only where another
\* value coincides with it), the tool is started with that list, and the
\* password is in the tool's environment as MYSQL_PWD.
C5_ArgumentsIgnorePassword ==
    \A c \in Callers :
        frame[c].cmd # None =>
            LET f == frame[c]
                db_config == f.db_config[1]
            IN  /\ \A other \in OneInputs.configs :
                      ( /\ other.db_host = db_config.db_host
                        /\ other.db_port = db_config.db_port
                        /\ other.db_user = db_config.db_user
                        /\ other.db_name = db_config.db_name )
                      => BuildCmd(other, f.filepath[1], f.target_db[1]) = f.cmd[1]
                /\ f.env[1][LitPwdVar] = db_config.db_password
                /\ procs[c] # None =>
                      /\ procs[c][1].args = f.cmd[1]
                      /\ procs[c][1].env[LitPwdVar] = db_config.db_password

\* The tool runs with password "s" in its environment and not among its
\* arguments.
C5_Witness ==
    \E c \in Callers :
        /\ procs[c] # None
        /\ procs[c][1].state = "running"
        /\ frame[c].db_config[1].db_password = <<"s">>
        /\ procs[c][1].env[LitPwdVar] = <<"s">>
        /\ \A i \in 1..Len(procs[c][1].args) : procs[c][1].args[i] # <<"s">>

\* --------------------------------------------------------------- C6
\* C6: target_db is db_name itself when db_name has no comma; otherwise it is
\* the text before the first comma without its leading and trailing
\* whitespace. It is the one database name in the argument list (the last of
\* seven arguments) and the name in the file name.
C6_TargetDatabase ==
    \A c \in Callers :
        frame[c].target_db # None =>
            LET f == frame[c]
                name == f.db_config[1].db_name
                target == f.target_db[1]
                commas == {i \in 1..Len(name) : name[i] = ","}
            IN  /\ commas = {} => target = name
                /\ commas # {} =>
                      \E k \in commas :
                          /\ \A j \in commas : k <= j
                          /\ \E lo \in 1..k : \E hi \in 0..(k - 1) :
                                /\ target = SubSeq(name, lo, hi)
                                /\ \A j \in 1..(lo - 1) : IsSpace(name[j])
                                /\ \A j \in (hi + 1)..(k - 1) : IsSpace(name[j])
                                /\ target # <<>> =>
                                      /\ ~IsSpace(target[1])
                                      /\ ~IsSpace(target[Len(target)])
                /\ Len(f.cmd[1]) = 7
                /\ f.cmd[1][7] = target
                /\ f.filepath[1] =
                      BACKUP_DIR \o <<"/">> \o LitFilePrefix \o target \o <<"_">>
                        \o f.timestamp[1] \o LitFileSuffix
                /\ (name = APPDB_LOGSDB => target = APPDB)
                /\ (name = APPDB => target = APPDB)

\* "appdb,logsdb" has been given and "appdb" is the target.
C6_Witness ==
    \E c \in Callers :
        /\ frame[c].target_db = Some(APPDB)
        /\ frame[c].db_config[1].db_name = APPDB_LOGSDB
        /\ frame[c].cmd[1][7] = APPDB

\* --------------------------------------------------------------- C7
\* C7: every ensure_backup_dir that returns returns BACKUP_DIR and leaves the
\* directory in existence; a call that finds the directory makes nothing;
\* and once a caller's call has returned, its next call does not fail,
\* returns the same path and makes nothing, whether the directory was there
\* at the start or not. A call fails only when its os.makedirs raises, which
\* takes a test that found no directory.
C7_EnsureIdempotent ==
    \A c \in Callers :
        LET f == frame[c]
        IN  /\ f.ensure_ret # None => (dirExists /\ f.ensure_ret = Some(BACKUP_DIR))
            /\ f.existed = Some(TRUE) =>
                  (~f.made /\ f.ensure_ret = Some(BACKUP_DIR) /\ pc[c] # "makedirs")
            /\ (prev_ensure[c] # None /\ f.existed # None) =>
                  /\ f.ensure_ret = prev_ensure[c]
                  /\ ~f.made
                  /\ pc[c] # "makedirs"
            /\ f.made => f.existed = Some(FALSE)
            /\ (f.existed # None /\ f.ensure_ret = None /\ pc[c] # "makedirs") =>
                  /\ f.existed = Some(FALSE)
                  /\ prev_ensure[c] = None
                  /\ f.exc # None
                  /\ f.exc[1].cls \in {"FileExistsError", "PermissionError"}

\* A caller's second call has returned, in a run that began without the
\* directory.
C7_Witness ==
    \E c \in Callers :
        /\ prev_ensure[c] = Some(BACKUP_DIR)
        /\ frame[c].ensure_ret = Some(BACKUP_DIR)
        /\ \E d \in Callers : d # c /\ frame[d].made

\* --------------------------------------------------------------- C8
\* Two callers whose tools are both running.
BothRunning(c, d) ==
    /\ c # d
    /\ procs[c] # None /\ procs[c][1].state = "running"
    /\ procs[d] # None /\ procs[d][1].state = "running"

\* C8 as stated: no two running tools are given the same output file.
C8_DistinctOutputFiles ==
    \A c, d \in Callers :
        BothRunning(c, d) =>
            ResultFileOf(procs[c][1].args) # ResultFileOf(procs[d][1].args)

\* C8 as amended: two running tools are given the same output file exactly
\* when their backups have the same target database and read the timestamp
\* within the same second; with another target or another second the files
\* are distinct.
C8_SameFileIffSameTargetAndSecond ==
    \A c, d \in Callers :
        BothRunning(c, d) =>
            ( ResultFileOf(procs[c][1].args) = ResultFileOf(procs[d][1].args)
              <=> ( /\ frame[c].target_db = frame[d].target_db
                    /\ \E t \in 0..ticks :
                          /\ frame[c].timestamp = Some(get_timestamp(t))
                          /\ frame[d].timestamp = Some(get_timestamp(t)) ) )

\* Two tools run for the same target, started in different seconds, with
\* distinct output files.
C8_Witness ==
    \E c, d \in Callers :
        /\ BothRunning(c, d)
        /\ frame[c].target_db = frame[d].target_db
        /\ frame[c].timestamp # frame[d].timestamp
        /\ ResultFileOf(procs[c][1].args) # ResultFileOf(procs[d][1].args)

\* --------------------------------------------------------------- C9
\* C9: a backup calls subprocess.run at most once, also after a non-zero
\* exit or a failed start, and has no result (and has not ended) while the
\* tool it started is running.
C9_OneRunNoRetry ==
    \A c \in Callers :
        /\ runs[c] <= 1
        /\ (procs[c] # None /\ procs[c][1].state = "running") =>
              /\ frame[c].result = None
              /\ frame[c].exc = None
              /\ pc[c] = "waiting"
        /\ frame[c].result # None =>
              /\ runs[c] = 1
              /\ procs[c] # None
              /\ procs[c][1].state \in {"exited", "spawn_failed"}
              /\ pc[c] = "returned"

\* A backup has returned failure after a non-zero exit, having run the tool
\* once.
C9_Witness ==
    \E c \in Callers :
        /\ pc[c] = "returned"
        /\ frame[c].result[1][1] = FALSE
        /\ procs[c][1].returncode = Some(1)
        /\ runs[c] = 1

\* -------------------------------------------------------------- C10
\* C10: subprocess.run is only called after ensure_backup_dir has returned;
\* when os.makedirs raises (also because another caller made the directory
\* after this caller's test), the exception leaves backup: no result is
\* returned and no tool is started.
C10_EnsureBeforeRun ==
    \A c \in Callers :
        LET f == frame[c]
        IN  /\ (runs[c] > 0 \/ procs[c] # None \/ f.cmd # None \/ f.result # None)
                  => f.ensure_ret = Some(BACKUP_DIR)
            /\ (f.existed # None /\ f.ensure_ret = None /\ pc[c] # "makedirs") =>
                  /\ pc[c] = "raised"
                  /\ f.exc # None
                  /\ IsSubclass(f.exc[1].cls, "OSError")
                  /\ f.result = None
                  /\ f.cmd = None
                  /\ runs[c] = 0
                  /\ procs[c] = None

\* os.makedirs has raised FileExistsError in a caller whose test found no
\* directory, because another caller made it in between.
C10_Witness ==
    \E c, d \in Callers :
        /\ c # d
        /\ pc[c] = "raised"
        /\ frame[c].existed = Some(FALSE)
        /\ frame[c].exc[1].cls = "FileExistsError"
        /\ frame[d].made
        /\ runs[c] = 0

====
